---- MODULE Spec2Model ----
(***************************************************************************)
(* Model of font_property_detail.py: class Font, its identifier            *)
(* enumerations, the naming-table scan (get_value_for_name_table), the     *)
(* record formatter (get_formatted_dict) and the reader                    *)
(* (get_property_detail) with its exception handlers.                      *)
(*                                                                         *)
(* One behaviour is one call on one Font instance.  The font-container     *)
(* library is a black box: opening a path and reading a naming table       *)
(* either succeed or raise one of the library's exceptions.                *)
(***************************************************************************)
EXTENDS Integers, Sequences, FiniteSets, TLC

VARIABLES
    font_file_path,   \* Font.font_file_path, a sequence of characters
    exists,           \* whether the path names an existing file
    runAsMain,        \* whether the module-level name `font` is bound (__main__ block ran)
    pc,               \* position of the call
    op,               \* which public method was called
    name_id,          \* argument name_id (value of a Font.Name member)
    platform_id,      \* argument platform_id (value of a Font.Platform member)
    lang_id,          \* argument lang_id (value of a language member)
    nFonts,           \* number of logical fonts of the opened container
    names,            \* name_table.names of the logical font being processed
    fontIdx,          \* index of the logical font being processed
    i,                \* index of the record the scan loop is at
    value_list,       \* value_list of get_value_for_name_table
    property_dict,    \* property_dict of get_property_detail (the caller's binding)
    log,              \* records emitted through logger, in order
    exc,              \* exception raised ("None" when none)
    openCalls,        \* calls made to TTFont(...) / TTCollection(...)
    openHandles,      \* logical fonts opened and not closed
    ret               \* value returned to the caller

vars == << font_file_path, exists, runAsMain, pc, op, name_id, platform_id,
           lang_id, nFonts, names, fontIdx, i, value_list, property_dict,
           log, exc, openCalls, openHandles, ret >>

(***************************************************************************)
(* Bounds                                                                  *)
(***************************************************************************)
MaxFonts == 2
MaxRecs == 2

(***************************************************************************)
(* Enumerations.  An IntEnum is the sequence of its members in definition  *)
(* order, each a <<name, value>> pair.                                     *)
(***************************************************************************)
ALL == -1
MAC == 1
WINDOWS == 3
FONT_FAMILY_NAME == 1
LICENSE_DESCRIPTION == 13
ENGLISH_UNITED_STATES == 1033
MAC_JAPANESE == 11
ENGLISH_MAC == 0

Platform == << <<"ALL", ALL>>, <<"MAC", MAC>>, <<"WINDOWS", WINDOWS>> >>

Name ==
    << <<"COPY_RIGHT", 0>>, <<"FONT_FAMILY_NAME", FONT_FAMILY_NAME>>,
       <<"FONT_SUBFAMILY_NAME", 2>>, <<"UNIQUE_FONT_IDENTIFIER", 3>>,
       <<"FULL_FONT_NAME", 4>>, <<"VERSION_STRING", 5>>,
       <<"POSTSCRIPT_NAME", 6>>, <<"TRADEMARK", 7>>,
       <<"MANUFACTURER_NAME", 8>>, <<"DESIGNER", 9>>, <<"DESCRIPTION", 10>>,
       <<"URL_VENDOR", 11>>, <<"URL_DESIGNER", 12>>,
       <<"LICENSE_DESCRIPTION", LICENSE_DESCRIPTION>>,
       <<"LICENSE_INFO_URL", 14>>, <<"TYPOGRAPHIC_FAMILY_NAME", 16>>,
       <<"TYPOGRAPHIC_SUBFAMILY_NAME", 17>>, <<"COMPATIBLE_FULL", 18>>,
       <<"SAMPLE_TEXT", 19>>, <<"POSTSCRIPT_CID_FINDFONT_NAME", 20>>,
       <<"WWS_FAMILY_NAME", 21>>, <<"WWS_SUBFAMILY_NAME", 22>>,
       <<"LIGHT_BACKGROUND_PALETTE", 23>>, <<"DARK_BACKGROUND_PALETTE", 24>>,
       <<"VARIATIONS_POSTSCRIPT_NAME_PREFIX", 25>> >>

WindowsLanguage ==
    << <<"ALL", ALL>>, <<"ENGLISH_UNITED_STATES", ENGLISH_UNITED_STATES>>,
       <<"JAPANESE", 1041>> >>

MacLanguage ==
    << <<"ALL", ALL>>, <<"ENGLISH", ENGLISH_MAC>>, <<"JAPANESE", MAC_JAPANESE>> >>

\* cls(id): the IntEnum constructor succeeds only on a member's value,
\* and raises ValueError on any other integer.
IsMember(cls, id) == \E k \in 1..Len(cls) : cls[k][2] = id

\* cls.get_name_by_id(id): the first member equal to id, else "Unknown".
RECURSIVE get_name_by_id(_, _)
get_name_by_id(cls, id) ==
    IF cls = << >> THEN "Unknown"
    ELSE IF Head(cls)[2] = id THEN Head(cls)[1]
    ELSE get_name_by_id(Tail(cls), id)

(***************************************************************************)
(* Inputs: naming-table records as the container library yields them       *)
(* (unsigned platformID, langID, nameID and the decoded string).  Platform  *)
(* 0 is the Unicode platform and Windows language 1036 is French: both are *)
(* IDs of the naming-table format that the enumerations do not define.     *)
(***************************************************************************)
Rec(p, l, n) ==
    [platformID |-> p, langID |-> l, nameID |-> n, string |-> "Bowli Rough"]

Records ==
    { Rec(WINDOWS, ENGLISH_UNITED_STATES, FONT_FAMILY_NAME),
      Rec(MAC, MAC_JAPANESE, FONT_FAMILY_NAME),
      Rec(0, 0, FONT_FAMILY_NAME),
      Rec(WINDOWS, 1036, FONT_FAMILY_NAME),
      Rec(WINDOWS, ENGLISH_UNITED_STATES, LICENSE_DESCRIPTION),
      Rec(0, 0, LICENSE_DESCRIPTION) }

NameTables == UNION {[1..n -> Records] : n \in 0..MaxRecs}

NameArgs == {FONT_FAMILY_NAME, LICENSE_DESCRIPTION}
PlatformArgs == {ALL, MAC, WINDOWS}
LangArgs == {ALL, MAC_JAPANESE, ENGLISH_UNITED_STATES}

Paths ==
    { <<"a", ".", "t", "t", "c">>,
      <<"a", ".", "T", "T", "F">>,
      <<"a", ".", "o", "t", "f">>,
      <<"a", ".", "x", "y", "z">>,
      <<".", "t", "t", "f">>,
      <<"a">> }

(***************************************************************************)
(* os.path.splitext(path)[1].lower()                                       *)
(***************************************************************************)
RECURSIVE rfind(_, _, _)
rfind(p, c, k) ==
    IF k = 0 THEN 0
    ELSE IF p[k] = c THEN k
    ELSE rfind(p, c, k - 1)

\* splitext: the extension starts at the last dot of the last path component,
\* unless that component consists of leading dots up to it.
splitext_ext(p) ==
    LET sepIndex == rfind(p, "/", Len(p))
        dotIndex == rfind(p, ".", Len(p))
    IN  IF dotIndex > sepIndex
           /\ \E k \in (sepIndex + 1)..(dotIndex - 1) : p[k] # "."
        THEN SubSeq(p, dotIndex, Len(p))
        ELSE << >>

lower_char(c) ==
    CASE c = "T" -> "t"
      [] c = "F" -> "f"
      [] c = "C" -> "c"
      [] c = "O" -> "o"
      [] OTHER -> c

lower(s) == [k \in 1..Len(s) |-> lower_char(s[k])]

file_extension(path) == lower(splitext_ext(path))

IsCollection(ext) == ext = <<".", "t", "t", "c">>

IsSingleFontLax(ext) == ~IsCollection(ext)

IsSingleFont(ext) ==
    ext = <<".", "t", "t", "f">> \/ ext = <<".", "o", "t", "f">>

(***************************************************************************)
(* Logging.  The logger is installed at level INFO; logger.debug emits     *)
(* nothing.  logger.info is the reporting sink.                            *)
(***************************************************************************)
LogEntry(level, msg, props) == [level |-> level, msg |-> msg, props |-> props]

Sink(l) == SelectSeq(l, LAMBDA e : e.level = "INFO")
Errors(l) == SelectSeq(l, LAMBDA e : e.level = "ERROR")

(***************************************************************************)
(* get_formatted_dict(record)                                              *)
(***************************************************************************)
FormattedDict(record, langName) ==
    [name     |-> get_name_by_id(Name, record.nameID),
     platform |-> get_name_by_id(Platform, record.platformID),
     lang     |-> langName,
     value    |-> record.string]

NoDict == [name |-> "", platform |-> "", lang |-> "", value |-> ""]

\* The outcome of one call: raised (ValueError from an enumeration
\* constructor), else the dictionary and whether the warning was logged.
get_formatted_dict(record) ==
    IF ~IsMember(Platform, record.platformID)
    THEN [raised |-> TRUE, warned |-> FALSE, dict |-> NoDict]
    ELSE IF ~IsMember(Name, record.nameID)
    THEN [raised |-> TRUE, warned |-> FALSE, dict |-> NoDict]
    ELSE IF record.platformID = WINDOWS
    THEN IF ~IsMember(WindowsLanguage, record.langID)
         THEN [raised |-> TRUE, warned |-> FALSE, dict |-> NoDict]
         ELSE [raised |-> FALSE, warned |-> FALSE,
               dict |-> FormattedDict(record,
                            get_name_by_id(WindowsLanguage, record.langID))]
    ELSE IF record.platformID = MAC
    THEN IF ~IsMember(MacLanguage, record.langID)
         THEN [raised |-> TRUE, warned |-> FALSE, dict |-> NoDict]
         ELSE [raised |-> FALSE, warned |-> FALSE,
               dict |-> FormattedDict(record,
                            get_name_by_id(MacLanguage, record.langID))]
    ELSE [raised |-> FALSE, warned |-> TRUE,
          dict |-> FormattedDict(record, "Unknown")]

(***************************************************************************)
(* is_matching_record(record, name_id, platform_id, lang_id)               *)
(***************************************************************************)
is_matching_record(record, n, p, l) ==
    /\ record.platformID = p
    /\ record.langID = l
    /\ record.nameID = n

(***************************************************************************)
(* Exception handling of get_property_detail: the except clauses in        *)
(* source order.  TTLibFileIsCollectionError derives from TTLibError.      *)
(***************************************************************************)
IsInstance(e, cls) ==
    \/ e = cls
    \/ e = "TTLibFileIsCollectionError" /\ cls = "TTLibError"

ExceptClausesNoFileNotFound ==
    << "TTLibFileIsCollectionError", "TTLibError" >>

ExceptClauses ==
    << "TTLibFileIsCollectionError", "TTLibError", "FileNotFoundError" >>

Caught(e) == \E k \in 1..Len(ExceptClauses) : IsInstance(e, ExceptClauses[k])

HandlerOf(e) ==
    ExceptClauses[CHOOSE k \in 1..Len(ExceptClauses) :
        /\ IsInstance(e, ExceptClauses[k])
        /\ \A j \in 1..(k - 1) : ~IsInstance(e, ExceptClauses[j])]

\* What the library can raise when a path that exists is opened or a table read.
ParseErrors == {"TTLibFileIsCollectionError", "TTLibError"}

(***************************************************************************)
(* Initial state: a constructed Font(file_path), nothing called yet.       *)
(***************************************************************************)
Init ==
    /\ font_file_path \in Paths
    /\ exists \in BOOLEAN
    /\ runAsMain \in BOOLEAN
    /\ pc = "idle"
    /\ op = "none"
    /\ name_id = ALL
    /\ platform_id = ALL
    /\ lang_id = ALL
    /\ nFonts = 0
    /\ names = << >>
    /\ fontIdx = 0
    /\ i = 0
    /\ value_list = << >>
    /\ property_dict = << >>
    /\ log = << >>
    /\ exc = "None"
    /\ openCalls = 0
    /\ openHandles = {}
    /\ ret = << >>

(***************************************************************************)
(* Public methods.                                                         *)
(***************************************************************************)
\* get_property_detail(name_id, platform_id, lang_id): entry, property_dict = {}.
get_property_detail(n, p, l) ==
    /\ pc = "idle"
    /\ ~runAsMain          \* the __main__ block calls the two presets only
    /\ op' = "get_property_detail"
    /\ name_id' = n
    /\ platform_id' = p
    /\ lang_id' = l
    /\ property_dict' = << >>
    /\ pc' = "extract"
    /\ UNCHANGED << font_file_path, exists, runAsMain, nFonts, names, fontIdx,
                    i, value_list, log, exc, openCalls, openHandles, ret >>

\* A preset reads the enumeration through the module-level name `font`,
\* which is bound only by the __main__ block; unbound, the lookup raises
\* NameError before get_property_detail is entered.
Preset(method, n) ==
    /\ pc = "idle"
    /\ op' = method
    /\ IF runAsMain
       THEN /\ name_id' = n
            /\ platform_id' = ALL
            /\ lang_id' = ALL
            /\ property_dict' = << >>
            /\ pc' = "extract"
            /\ exc' = exc
       ELSE /\ exc' = "NameError"
            /\ pc' = "raised"
            /\ UNCHANGED << name_id, platform_id, lang_id, property_dict >>
    /\ UNCHANGED << font_file_path, exists, runAsMain, nFonts, names, fontIdx,
                    i, value_list, log, openCalls, openHandles, ret >>

get_font_family_name == Preset("get_font_family_name", FONT_FAMILY_NAME)

get_license_description == Preset("get_license_description", LICENSE_DESCRIPTION)

(***************************************************************************)
(* get_property_detail: dispatch on the extension and open the container.  *)
(***************************************************************************)
\* Outcome of TTFont(path) / TTCollection(path).
Open(n) ==
    /\ openCalls' = openCalls + 1
    /\ IF ~exists
       THEN /\ exc' = "FileNotFoundError"
            /\ pc' = "except"
            /\ UNCHANGED << nFonts, fontIdx, openHandles >>
       ELSE \/ /\ nFonts' = n
               /\ openHandles' = 1..n
               /\ fontIdx' = 1
               /\ pc' = "process"
               /\ exc' = exc
            \/ /\ exc' \in ParseErrors
               /\ pc' = "except"
               /\ UNCHANGED << nFonts, fontIdx, openHandles >>
    /\ UNCHANGED << font_file_path, exists, runAsMain, op, name_id, platform_id,
                    lang_id, names, i, value_list, property_dict, log, ret >>

OpenCollection ==
    /\ pc = "extract"
    /\ IsCollection(file_extension(font_file_path))
    /\ \E n \in 1..MaxFonts : Open(n)

OpenSingle ==
    /\ pc = "extract"
    /\ ~IsCollection(file_extension(font_file_path))
    /\ IsSingleFont(file_extension(font_file_path))
    /\ Open(1)

Unsupported ==
    /\ pc = "extract"
    /\ ~IsCollection(file_extension(font_file_path))
    /\ ~IsSingleFont(file_extension(font_file_path))
    /\ log' = Append(log, LogEntry("WARNING", "unsupported file format", << >>))
    /\ ret' = property_dict
    /\ pc' = "returned"
    /\ UNCHANGED << font_file_path, exists, runAsMain, op, name_id, platform_id,
                    lang_id, nFonts, names, fontIdx, i, value_list,
                    property_dict, exc, openCalls, openHandles >>

(***************************************************************************)
(* get_value_for_name_table                                                *)
(***************************************************************************)
\* name_table = font['name']: the table of the current logical font is
\* read, or the library raises while parsing it.
ReadNameTable ==
    /\ pc = "process"
    /\ \/ \E table \in NameTables :
              /\ names' = table
              /\ i' = 1
              /\ value_list' = << >>
              /\ pc' = "scan"
              /\ exc' = exc
       \/ /\ exc' = "TTLibError"
          /\ pc' = "except"
          /\ UNCHANGED << names, i, value_list >>
    /\ UNCHANGED << font_file_path, exists, runAsMain, op, name_id, platform_id,
                    lang_id, nFonts, fontIdx, property_dict, log, openCalls,
                    openHandles, ret >>

\* One iteration of `for record in name_table.names`.
ScanRecord ==
    /\ pc = "scan"
    /\ i <= Len(names)
    /\ LET record == names[i]
           out == get_formatted_dict(record)
       IN  IF record.nameID = name_id /\ out.raised
           THEN /\ exc' = "ValueError"
                /\ pc' = "except"
                /\ UNCHANGED << i, value_list, log >>
           ELSE /\ IF record.nameID = name_id
                   THEN /\ value_list' = Append(value_list, out.dict)
                        /\ log' = IF out.warned
                                  THEN Append(log, LogEntry("WARNING",
                                           "unsupported platform", << >>))
                                  ELSE log
                   ELSE UNCHANGED << value_list, log >>
                /\ IF is_matching_record(record, name_id, platform_id, lang_id)
                   THEN pc' = "break" /\ i' = i
                   ELSE pc' = "scan" /\ i' = i + 1
                /\ exc' = exc
    /\ UNCHANGED << font_file_path, exists, runAsMain, op, name_id, platform_id,
                    lang_id, nFonts, names, fontIdx, property_dict, openCalls,
                    openHandles, ret >>

\* After the loop: the warning for an empty value_list, and the return.
ScanReturn ==
    /\ \/ pc = "break"
       \/ pc = "scan" /\ i > Len(names)
    /\ log' = IF value_list = << >>
              THEN Append(log, LogEntry("WARNING", "property not found", << >>))
              ELSE log
    /\ pc' = "scanned"
    /\ UNCHANGED << font_file_path, exists, runAsMain, op, name_id, platform_id,
                    lang_id, nFonts, names, fontIdx, i, value_list,
                    property_dict, exc, openCalls, openHandles, ret >>

(***************************************************************************)
(* process_property_detail / logging_property_detail                       *)
(***************************************************************************)
\* process_property_detail assigns the scan's result to its own parameter
\* property_dict; the caller's property_dict keeps the object it was bound to.
CallerPropertyDict(outer, result) == outer

\* logging_property_detail: one logger.info per element, in order.
logging_property_detail(l, props) ==
    l \o [k \in 1..Len(props) |-> LogEntry("INFO", "property", << props[k] >>)]

ProcessPropertyDetail ==
    /\ pc = "scanned"
    /\ property_dict' = CallerPropertyDict(property_dict, value_list)
    /\ log' = logging_property_detail(log, value_list)
    /\ IF fontIdx < nFonts
       THEN \* next iteration of `for font_number, font in enumerate(...)`;
            \* the locals of the finished scan are gone
            /\ fontIdx' = fontIdx + 1
            /\ names' = << >>
            /\ i' = 0
            /\ value_list' = << >>
            /\ pc' = "process"
            /\ ret' = ret
       ELSE /\ ret' = property_dict'
            /\ pc' = "returned"
            /\ UNCHANGED << fontIdx, names, i, value_list >>
    /\ UNCHANGED << font_file_path, exists, runAsMain, op, name_id, platform_id,
                    lang_id, nFonts, exc, openCalls, openHandles >>

(***************************************************************************)
(* The except clauses of get_property_detail.                              *)
(***************************************************************************)
Catch ==
    /\ pc = "except"
    /\ Caught(exc)
    /\ log' = Append(log, LogEntry("ERROR", HandlerOf(exc), << >>))
    /\ ret' = property_dict
    /\ pc' = "returned"
    /\ UNCHANGED << font_file_path, exists, runAsMain, op, name_id, platform_id,
                    lang_id, nFonts, names, fontIdx, i, value_list,
                    property_dict, exc, openCalls, openHandles >>

\* No clause matches: the exception leaves get_property_detail.
Propagate ==
    /\ pc = "except"
    /\ ~Caught(exc)
    /\ pc' = "raised"
    /\ UNCHANGED << font_file_path, exists, runAsMain, op, name_id, platform_id,
                    lang_id, nFonts, names, fontIdx, i, value_list,
                    property_dict, log, exc, openCalls, openHandles, ret >>

Next ==
    \/ \E n \in NameArgs, p \in PlatformArgs, l \in LangArgs :
           get_property_detail(n, p, l)
    \/ get_font_family_name
    \/ get_license_description
    \/ OpenCollection
    \/ OpenSingle
    \/ Unsupported
    \/ ReadNameTable
    \/ ScanRecord
    \/ ScanReturn
    \/ ProcessPropertyDetail
    \/ Catch
    \/ Propagate

Spec == Init /\ [][Next]_vars

(***************************************************************************)
(* Vocabulary of the properties.                                           *)
(***************************************************************************)
Done == pc \in {"returned", "raised"}

\* get_property_detail has been entered (a preset may fail before it is).
Entered == pc # "idle" /\ exc # "NameError"

\* The scan of the current logical font is over: it returned its list, or
\* an exception left it.
ScanEnded ==
    \/ pc = "scanned"
    \/ exc = "ValueError" /\ pc \in {"except", "raised"}

SinkProps(l) == [k \in 1..Len(Sink(l)) |-> Sink(l)[k].props[1]]

NameMatches(r) == r.nameID = name_id

TripleMatches(r) ==
    r.platformID = platform_id /\ r.langID = lang_id /\ r.nameID = name_id

ConcreteFilters == platform_id # ALL /\ lang_id # ALL

CollaboratorFailures ==
    {"FileNotFoundError", "TTLibFileIsCollectionError", "TTLibError"}

SupportedExtensions ==
    { <<".", "t", "t", "c">>, <<".", "t", "t", "f">>, <<".", "o", "t", "f">> }

UnsupportedPath == lower(splitext_ext(font_file_path)) \notin SupportedExtensions

UnsupportedFormatWarning == LogEntry("WARNING", "unsupported file format", << >>)

(***************************************************************************)
(* C1.  For a single-font file that opens and whose naming table holds a   *)
(* record with nameID FONT_FAMILY_NAME, get_property_detail called with    *)
(* FONT_FAMILY_NAME and wildcard filters returns a non-empty sequence      *)
(* whose elements all have name "FONT_FAMILY_NAME".                        *)
(***************************************************************************)
C1_FamilyNameReturned ==
    ( /\ pc = "returned"
      /\ exc = "None"
      /\ IsSingleFont(file_extension(font_file_path))
      /\ name_id = FONT_FAMILY_NAME
      /\ platform_id = ALL
      /\ lang_id = ALL
      /\ \E k \in 1..Len(names) : names[k].nameID = FONT_FAMILY_NAME )
    => /\ ret # << >>
       /\ \A k \in 1..Len(ret) : ret[k].name = "FONT_FAMILY_NAME"

(***************************************************************************)
(* C2.  A name-matching record whose platformID is neither MAC nor WINDOWS *)
(* is formatted without failure, with lang "Unknown" and an unsupported-   *)
(* platform warning, and is part of the scan's output.                     *)
(***************************************************************************)
C2_UnsupportedPlatformEmitted ==
    LET Other(r) == NameMatches(r) /\ r.platformID \notin {MAC, WINDOWS}
    IN  /\ (exc = "ValueError" /\ pc \in {"except", "raised"}) => ~Other(names[i])
        /\ pc = "scanned" =>
             \A k \in 1..Len(names) :
                 (Other(names[k]) /\ (k < i \/ (k = i /\ TripleMatches(names[k]))))
                 => /\ \E j \in 1..Len(value_list) :
                           /\ value_list[j].lang = "Unknown"
                           /\ value_list[j].value = names[k].string
                    /\ \E j \in 1..Len(log) :
                           log[j] = LogEntry("WARNING", "unsupported platform", << >>)

(***************************************************************************)
(* C3.  A name-matching record of platform WINDOWS or MAC is formatted     *)
(* without failure for any langID; lang is the symbol of langID in the     *)
(* registry of the record's platform, or "Unknown" when langID is not a    *)
(* member of it.                                                           *)
(***************************************************************************)
C3_LanguageResolved ==
    LET Known(r) == NameMatches(r) /\ r.platformID \in {MAC, WINDOWS}
        Registry(r) == IF r.platformID = WINDOWS THEN WindowsLanguage
                       ELSE MacLanguage
    IN  /\ (exc = "ValueError" /\ pc \in {"except", "raised"}) => ~Known(names[i])
        /\ pc = "scanned" =>
             \A j \in 1..Len(value_list) :
                 \E k \in 1..Len(names) :
                     /\ NameMatches(names[k])
                     /\ value_list[j].value = names[k].string
                     /\ Known(names[k]) =>
                            value_list[j].lang =
                                get_name_by_id(Registry(names[k]), names[k].langID)

(***************************************************************************)
(* C4.  A file-not-found, collection-parse or font-parse failure raised    *)
(* while opening or reading the font is caught by get_property_detail,     *)
(* which logs exactly one error-level message, the one of that failure's   *)
(* handler, and returns an empty result; the failure never reaches the     *)
(* caller.  In particular a path that does not exist yields an empty       *)
(* result.                                                                 *)
(***************************************************************************)
C4_CollaboratorFailuresCaught ==
    /\ exc \in CollaboratorFailures =>
         /\ pc \in {"except", "returned"}
         /\ pc = "except" => Caught(exc) /\ Errors(log) = << >>
         /\ pc = "returned" =>
              /\ ret = << >>
              /\ Errors(log) = << LogEntry("ERROR", exc, << >>) >>
    /\ (Entered /\ ~exists /\ ~UnsupportedPath) =>
         /\ pc # "raised"
         /\ pc = "returned" => ret = << >> /\ exc = "FileNotFoundError"

C4_Witness ==
    /\ pc = "returned"
    /\ ~exists
    /\ exc = "FileNotFoundError"
    /\ file_extension(font_file_path) = <<".", "t", "t", "f">>
    /\ Len(Errors(log)) = 1

(***************************************************************************)
(* C5.  Every font opened by a call is released before the call returns    *)
(* or raises.                                                              *)
(***************************************************************************)
C5_HandlesReleased == Done => openHandles = {}

(***************************************************************************)
(* C6.  The scan's result is a subsequence of the input in record order;   *)
(* with concrete filters, if the first full triple match is at index m, no *)
(* record after m is in the result and every name-matching record up to m  *)
(* is.                                                                     *)
(***************************************************************************)
C6_ScanOrderAndCut ==
    ScanEnded =>
        /\ pc = "scanned"
        /\ \E f \in [1..Len(value_list) -> 1..Len(names)] :
               /\ \A a, b \in 1..Len(value_list) : a < b => f[a] < f[b]
               /\ \A j \in 1..Len(value_list) :
                      /\ NameMatches(names[f[j]])
                      /\ value_list[j] = get_formatted_dict(names[f[j]]).dict
               /\ \A m \in 1..Len(names) :
                      ( /\ ConcreteFilters
                        /\ TripleMatches(names[m])
                        /\ \A k \in 1..(m - 1) : ~TripleMatches(names[k]) )
                      => /\ \A j \in 1..Len(value_list) : f[j] <= m
                         /\ \A k \in 1..m :
                                NameMatches(names[k]) =>
                                    \E j \in 1..Len(value_list) : f[j] = k

(***************************************************************************)
(* C7.  With the platform or the language filter left as ALL, the scan     *)
(* never terminates early: it visits every record and its result is        *)
(* exactly the records whose nameID equals the name field, in source       *)
(* order.                                                                  *)
(***************************************************************************)
C7_WildcardScansAll ==
    (platform_id = ALL \/ lang_id = ALL) =>
        /\ pc # "break"
        /\ ScanEnded =>
             LET matched == SelectSeq(names, NameMatches)
             IN  /\ pc = "scanned"
                 /\ i = Len(names) + 1
                 /\ value_list =
                        [k \in 1..Len(matched) |-> get_formatted_dict(matched[k]).dict]

(***************************************************************************)
(* C8.  The reporting sink receives each matched, formatted record exactly *)
(* once and in scan order: the step that ends the processing of a logical  *)
(* font appends that font's formatted records to the sink, and no other    *)
(* step emits anything.                                                    *)
(***************************************************************************)
C8_SinkOncePerRecord ==
    [][ LET scanning == pc \in {"scan", "break", "scanned"}
            leaves == scanning /\ pc' \notin {"scan", "break", "scanned"}
        IN  SinkProps(log') =
                SinkProps(log) \o (IF leaves THEN value_list ELSE << >>) ]_vars

(***************************************************************************)
(* C9.  get_font_family_name and get_license_description are presets: in   *)
(* any calling context they enter get_property_detail with their name      *)
(* field and wildcard filters, and add no failure of their own.            *)
(***************************************************************************)
C9_PresetsEnterExtract ==
    /\ op = "get_font_family_name" =>
         /\ exc # "NameError"
         /\ name_id = FONT_FAMILY_NAME /\ platform_id = ALL /\ lang_id = ALL
    /\ op = "get_license_description" =>
         /\ exc # "NameError"
         /\ name_id = LICENSE_DESCRIPTION /\ platform_id = ALL /\ lang_id = ALL

(***************************************************************************)
(* C10.  For a path whose extension, compared case-insensitively, is none  *)
(* of .ttc, .ttf, .otf, get_property_detail logs the unsupported-format    *)
(* warning, never calls the container library, emits nothing to the sink   *)
(* and returns an empty result.                                            *)
(***************************************************************************)
C10_UnsupportedExtension ==
    (Entered /\ UnsupportedPath) =>
        /\ openCalls = 0
        /\ Sink(log) = << >>
        /\ pc \in {"extract", "returned"}
        /\ pc = "extract" => log = << >>
        /\ pc = "returned" => ret = << >> /\ log = << UnsupportedFormatWarning >>

C10_Witness ==
    /\ pc = "returned"
    /\ font_file_path = <<"a", ".", "x", "y", "z">>
    /\ exists
    /\ log = << UnsupportedFormatWarning >>
    /\ openCalls = 0

====
